---- MODULE Spec2Model ----
(***************************************************************************)
(* Model of one session of infra_agent.workers.ai.gpt_query: the           *)
(* orchestrator loop, the dispatcher _handle_tool_calls, the tool handlers *)
(* of infra_agent.providers.router and the model gateway __gpt_query.      *)
(* One action per step between two suspension points of the coroutine.     *)
(***************************************************************************)
EXTENDS Integers, Sequences, FiniteSets, TLC

\* ---------------------------------------------------------------- bounds
\* Model Gateway calls one session may issue.
MaxQueries == 3
\* Tool calls the model may emit over one session (all batches together).
MaxCalls == 2

\* ------------------------------------------------------- python's None
\* None in a str | None field.
NoneVal == "<None>"
\* None in OpenAIMessage.tool_call_id.
NoId == 0

\* ---------------------------------------------------------- tool registry
RouterName == "route_intent"
CloserName == "finish_reasoning"
UnknownName == "no_such_tool"

_route_to_tool_list ==
    [gitlab |-> {"list_opened_merge_requests", "get_merge_request_details",
                 "update_file_and_push", "create_merge_request_from_branch",
                 "approve_merge_request", "get_file_contents",
                 "list_files_in_repository"},
     grafana |-> {"get_pod_container_cpu_usage", "get_pod_container_memory_usage",
                  "get_node_cpu_usage", "get_node_memory_usage",
                  "list_grafana_alerts"},
     kubernetes |-> {"get_pod_logs", "list_pods_by_namespace", "delete_pod",
                     "get_pod_details", "list_namespaces", "list_nodes",
                     "list_pod_containers", "list_node_pods",
                     "get_pod_helm_release_metadata"}]

tool_categories == DOMAIN _route_to_tool_list

DomainTools == UNION {_route_to_tool_list[c] : c \in tool_categories}

\* The two values of the module-level list `tools` (imported by workers/ai.py,
\* not defined in providers/router.py): gated mode starts with the router and
\* the closer, flat mode holds the closer and every domain tool.
ToolsGated == {RouterName, CloserName}
ToolsFlat == {CloserName} \cup DomainTools

\* OpenAITool.handler is set for every tool the registry defines.
HasHandler(name) == name \in DomainTools \cup {RouterName, CloserName}

\* ------------------------------------------------------------------ JSON
\* Argument strings and contents the model may produce.
ArgsCloserFixed == "{\"solved\": true, \"explanation\": \"fixed\", \"missing_tools\": [\"kubectl\"]}"
ArgsCloserBlank == "{\"solved\": true, \"explanation\": \"\"}"
ArgsCloserGaveUp == "{\"solved\": false, \"explanation\": \"gave up\", \"missing_tools\": []}"
ArgsEmpty == "{}"
ArgsKubernetes == "{\"category\": \"kubernetes\"}"
ArgsNoCategory == "{\"category\": \"nope\"}"
ArgsPod == "{\"namespace\": \"ghost\", \"pod_name\": \"x\"}"
ArgsMergeRequest == "{\"mr_id\": 7}"
\* Valid JSON that is an array, not an object.
ArgsList == "[]"
ArgsBad == "{bad"
ContentText == "I need your permission first"
ContentLegacySolved == "{\"arguments\": {\"solved\": true, \"explanation\": \"\"}}"
ContentLegacyGaveUp == "{\"arguments\": {\"solved\": false, \"explanation\": \"gave up\", \"missing_tools\": []}}"
\* The closer's arguments as raw content, without the "arguments" wrapper.
ContentCloserShaped == ArgsCloserFixed

\* A python dict is a sequence of <<key, value>> pairs in insertion order.
Has(d, k) == \E i \in 1..Len(d) : d[i][1] = k
Get(d, k) == d[CHOOSE i \in 1..Len(d) : d[i][1] = k][2]
Keys(d) == {d[i][1] : i \in 1..Len(d)}

DictCloserFixed == << <<"solved", TRUE>>, <<"explanation", "fixed">>, <<"missing_tools", <<"kubectl">> >> >>
DictCloserBlank == << <<"solved", TRUE>>, <<"explanation", "">> >>
DictCloserGaveUp == << <<"solved", FALSE>>, <<"explanation", "gave up">>, <<"missing_tools", <<>> >> >>

\* json.loads on the strings above: ok = FALSE stands for json.JSONDecodeError.
JsonLoads(s) ==
    CASE s = ArgsCloserFixed -> [ok |-> TRUE, val |-> DictCloserFixed]
      [] s = ArgsCloserBlank -> [ok |-> TRUE, val |-> DictCloserBlank]
      [] s = ArgsCloserGaveUp -> [ok |-> TRUE, val |-> DictCloserGaveUp]
      [] s = ArgsEmpty -> [ok |-> TRUE, val |-> <<>>]
      [] s = ArgsKubernetes -> [ok |-> TRUE, val |-> << <<"category", "kubernetes">> >>]
      [] s = ArgsNoCategory -> [ok |-> TRUE, val |-> << <<"category", "nope">> >>]
      [] s = ArgsPod -> [ok |-> TRUE, val |-> << <<"namespace", "ghost">>, <<"pod_name", "x">> >>]
      [] s = ArgsMergeRequest -> [ok |-> TRUE, val |-> << <<"mr_id", 7>> >>]
      [] s = ArgsList -> [ok |-> TRUE, val |-> <<>>]
      [] s = ContentLegacySolved -> [ok |-> TRUE, val |-> << <<"arguments", DictCloserBlank>> >>]
      [] s = ContentLegacyGaveUp -> [ok |-> TRUE, val |-> << <<"arguments", DictCloserGaveUp>> >>]
      [] s \in {ArgsBad, ContentText, ""} -> [ok |-> FALSE, val |-> <<>>]

\* isinstance(json.loads(s), dict): only a mapping has items() and can be
\* expanded with **.
IsMapping(s) == s # ArgsList

\* ------------------------------------------------------------ data model
\* A handler's return value, and OpenAIToolCall.result.
NoResult == [kind |-> "None", solved |-> FALSE, explanation |-> "", missing_tools |-> <<>>]
\* None in a List[str] | None field.
NoneList == <<NoneVal>>
CaseSummary(s, e, m) == [kind |-> "CaseSummary", solved |-> s, explanation |-> e, missing_tools |-> m]
SuccessPromptSummary == [kind |-> "SuccessPromptSummary", solved |-> FALSE, explanation |-> "", missing_tools |-> <<>>]
ToolList == [kind |-> "list", solved |-> FALSE, explanation |-> "", missing_tools |-> <<>>]
BoolTrue == [kind |-> "bool", solved |-> FALSE, explanation |-> "", missing_tools |-> <<>>]

OpenAIToolCall(id, name, arguments) ==
    [id |-> id, name |-> name, arguments |-> arguments, result |-> NoResult]

OpenAIMessage(role, name, content, calls, tcid, tcargs) ==
    [role |-> role, name |-> name, content |-> content, tool_calls |-> calls,
     tool_call_id |-> tcid, tool_call_arguments |-> tcargs]

\* Python truthiness of a str | None.
Truthy(s) == s # NoneVal /\ s # ""

\* message.model_dump(): result and tool_call_arguments are declared with
\* Field(exclude=True) and are no part of the serialised message.
model_dump(m) ==
    [role |-> m.role, name |-> m.name, content |-> m.content,
     tool_call_id |-> m.tool_call_id,
     tool_calls |-> [i \in 1..Len(m.tool_calls) |->
                       [id |-> m.tool_calls[i].id, name |-> m.tool_calls[i].name,
                        arguments |-> m.tool_calls[i].arguments]]]

\* ----------------------------------------------------------------- state
VARIABLES
    tools,        \* the module-level tool list of providers/router.py (names)
    messages,     \* gpt_query's message history
    batchAt,      \* index in messages of the assistant message whose
                  \* tool_calls the local variable tool_calls refers to
    idx,          \* position of _handle_tool_calls in its for loop
    pc,           \* position of the gpt_query coroutine
    case_solved,  \* gpt_query's local
    summary,      \* gpt_query's local
    ret,          \* how gpt_query left: its return value or its exception
    queries,      \* log of the Model Gateway calls: what was passed
    unlocked,     \* tool names of the groups _router_tool has returned
    invoked,      \* the handler runs, in order: the call and what it gave
    nCalls,       \* tool calls emitted by the model so far
    settings,     \* the two rate limit settings of settings.py
    clock,        \* the clock the limiter reads, in seconds
    limiter,      \* the state of the limits decorator of __avoid_ratelimits
    heap,         \* the list objects handed to gpt_query as messages
    lists,        \* per concurrent session: the list its messages refers to
    task,         \* per concurrent session: where its coroutine stands
    asks,         \* per concurrent session: Model Gateway calls begun
    windows,      \* the limiter's windows so far: how many, and the start
                  \* of the one before the current
    passed,       \* the calls let through in the current window
    gate,         \* per concurrent session: what the limiter did with its
                  \* latest Model Gateway call
    transcript,   \* per concurrent session: the transcript it returned
    request,      \* a webhook request as gpt_query gets it: the endpoint,
                  \* its two prompt templates and its template values
    prompted,       \* what gpt_query did with it before the first Model
                  \* Gateway call
    last_merge_request,  \* GitlabMergeRequestFactory.__last_merge_request
    ops           \* the calls made on the factory, in order, each with
                  \* what it gave and what it did to GitLab

sessionVars == <<tools, messages, batchAt, idx, pc, case_solved, summary, ret,
                 queries, unlocked, invoked, nCalls>>

concVars == <<settings, clock, limiter, heap, lists, task, asks, windows,
              passed, gate, transcript>>

seedVars == <<request, prompted>>

factoryVars == <<last_merge_request, ops>>

vars == <<tools, messages, batchAt, idx, pc, case_solved, summary, ret,
          queries, unlocked, invoked, nCalls,
          settings, clock, limiter, heap, lists, task, asks, windows,
          passed, gate, transcript, request, prompted, last_merge_request, ops>>

\* Concurrent webhook requests the process serves.
NumSessions == 2
Sessions == 1..NumSessions

\* A session the limiter has not met: tries and w are the rejections of its
\* current call and the window that rejected it, until the end of that
\* window; passes, at and let are its calls let through, and the time and
\* the window start of the latest.
NoGate == [tries |-> 0, w |-> 0, until |-> 0, passes |-> 0, at |-> 0, let |-> 0]

\* No webhook request has arrived; the limiter is as the import of
\* workers/ai.py left it, with the default settings.
ConcQuiet ==
    /\ settings = [OPENAI_API_RATE_LIMIT_REQUESTS |-> 0,
                   OPENAI_API_RATE_LIMIT_TIMEWINDOW |-> 0]
    /\ clock = 0
    /\ limiter = [last_reset |-> 0, num_calls |-> 0]
    /\ heap = [l \in 0..NumSessions |-> <<>>]
    /\ lists = [s \in Sessions |-> 0]
    /\ task = [s \in Sessions |-> "idle"]
    /\ asks = [s \in Sessions |-> 0]
    /\ windows = [n |-> 1, prev |-> 0]
    /\ passed = [count |-> 0, by |-> {}]
    /\ gate = [s \in Sessions |-> NoGate]
    /\ transcript = [s \in Sessions |-> <<>>]

\* No webhook request is being prompted.
SeedQuiet ==
    /\ request = [endpoint |-> "", kwargs |-> <<>>,
                  prompt |-> [literal |-> FALSE, fields |-> <<>>],
                  system_prompt |-> [literal |-> FALSE, fields |-> <<>>]]
    /\ prompted = [pc |-> "idle", messages |-> <<>>, exc |-> "", key |-> ""]

\* self.__last_merge_request = None: the fields of a merge request, and
\* whether there is one.
NoMergeRequest ==
    [set |-> FALSE, title |-> NoneVal, description |-> NoneVal,
     target_branch |-> NoneVal, source_branch |-> NoneVal,
     merge_request_files |-> {}]

\* GitlabMergeRequestFactory(): nothing was called on it yet.
FactoryQuiet ==
    /\ last_merge_request = NoMergeRequest
    /\ ops = <<>>

tool_calls == IF batchAt = 0 THEN <<>> ELSE messages[batchAt].tool_calls

Running == [state |-> "running", resolved |-> FALSE, data |-> NoResult,
            messages |-> <<>>, exc |-> ""]

\* OpenAIPromptSummary(data, messages, resolved) returned to the caller.
OpenAIPromptSummary(data, msgs, resolved) ==
    [state |-> "returned", resolved |-> resolved, data |-> data,
     messages |-> msgs, exc |-> ""]

\* An exception leaving gpt_query.
Raised(exc) ==
    [state |-> "raised", resolved |-> FALSE, data |-> NoResult,
     messages |-> <<>>, exc |-> exc]

Init ==
    /\ tools \in {ToolsGated, ToolsFlat}
    /\ messages = <<>>
    /\ batchAt = 0
    /\ idx = 1
    /\ pc = "seed"
    /\ case_solved = FALSE
    /\ summary = NoResult
    /\ ret = Running
    /\ queries = <<>>
    /\ unlocked = {}
    /\ invoked = <<>>
    /\ nCalls = 0
    /\ ConcQuiet
    /\ SeedQuiet
    /\ FactoryQuiet

\* ------------------------------------------------------------ INIT step
\* gpt_query up to the first Model Gateway call: the developer message (the
\* history is empty and both endpoints pass a system prompt) and the user
\* message.
Seed ==
    /\ UNCHANGED <<concVars, seedVars, factoryVars>>
    /\ pc = "seed"
    /\ messages' = messages
                   \o (IF messages = <<>>
                       THEN <<OpenAIMessage("developer", NoneVal, "system prompt", <<>>, NoId, NoneVal)>>
                       ELSE <<>>)
                   \o <<OpenAIMessage("user", NoneVal, "prompt", <<>>, NoId, NoneVal)>>
    /\ pc' = "query1"
    /\ UNCHANGED <<tools, batchAt, idx, case_solved, summary, ret, queries,
                   unlocked, invoked, nCalls>>

\* -------------------------------------------------------- tool handlers
\* What awaiting a handler gives: a return value, a PromptToolError or any
\* other exception.
Return(result) == [kind |-> "return", result |-> result, text |-> ""]
ToolError(message) == [kind |-> "PromptToolError", result |-> NoResult, text |-> message]
OtherError(text) == [kind |-> "Exception", result |-> NoResult, text |-> text]

\* handler(**args): the keyword arguments must fit the parameters.
Fits(args, required, optional) ==
    /\ required \subseteq Keys(args)
    /\ Keys(args) \subseteq required \cup optional

_router_tool(args) ==
    IF ~Fits(args, {"category"}, {})
    THEN {OtherError("TypeError")}
    ELSE IF Get(args, "category") \notin tool_categories
         THEN {ToolError("No such category found")}
         ELSE {Return(ToolList)}

_closer_tool(args) ==
    IF ~Fits(args, {"solved", "explanation"}, {"missing_tools"})
    THEN {OtherError("TypeError")}
    ELSE {Return(CaseSummary(Get(args, "solved"), Get(args, "explanation"),
                             IF Has(args, "missing_tools")
                             THEN Get(args, "missing_tools") ELSE <<>>))}

\* providers/k8s.py: every failure inside the API block leaves as the
\* PromptToolError "Failed to delete pod"; loading the configuration is
\* outside of it.
delete_pod(args) ==
    IF ~Fits(args, {"namespace", "pod_name"}, {})
    THEN {OtherError("TypeError")}
    ELSE {Return(SuccessPromptSummary), ToolError("Failed to delete pod"),
          OtherError("ConfigException")}

\* providers/gl.py: returns True; the GitLab client calls are not guarded.
approve_merge_request(args) ==
    IF ~Fits(args, {"mr_id"}, {})
    THEN {OtherError("TypeError")}
    ELSE {Return(BoolTrue), OtherError("GitlabGetError")}

\* _run_tool: tool.handler(**args) of the tool registered under the name;
\* delete_pod and approve_merge_request are the domain tools the model's
\* calls name.
_run_tool(name, args) ==
    CASE name = RouterName -> _router_tool(args)
      [] name = CloserName -> _closer_tool(args)
      [] name = "approve_merge_request" -> approve_merge_request(args)
      [] OTHER -> delete_pod(args)

\* ------------------------------------------------------------ dispatcher
\* "  - 'k' = 'v'" lines of the success message, in the dict's order.
\* sep.join(quote + x + quote for x in l)
RECURSIVE JoinQuoted(_, _, _)
JoinQuoted(l, quote, sep) ==
    IF l = <<>> THEN ""
    ELSE quote \o l[1] \o quote \o (IF Len(l) > 1 THEN sep ELSE "")
         \o JoinQuoted(Tail(l), quote, sep)

\* str(v) of an argument value, typed by the parameter it is passed for.
PyStr(k, v) ==
    CASE k = "solved" -> IF v THEN "True" ELSE "False"
      [] k = "missing_tools" -> "[" \o JoinQuoted(v, "'", ", ") \o "]"
      [] k = "mr_id" -> ToString(v)
      [] OTHER -> v

RECURSIVE ParamLines(_)
ParamLines(d) ==
    IF d = <<>> THEN ""
    ELSE "  - '" \o d[1][1] \o "' = '" \o PyStr(d[1][1], d[1][2]) \o "'"
         \o (IF Len(d) > 1 THEN "\n" ELSE "") \o ParamLines(Tail(d))

\* tool_result.model_dump(exclude_none=True) if tool_result else {}, then
\* json.dumps: ok = FALSE stands for the AttributeError of a value that has
\* no model_dump.
DumpResult(result) ==
    CASE result.kind = "None" -> [ok |-> TRUE, text |-> "{}"]
      [] result.kind = "SuccessPromptSummary" -> [ok |-> TRUE, text |-> "{\"type\": \"success\"}"]
      [] result.kind = "CaseSummary" ->
            [ok |-> TRUE,
             text |-> "{\"type\": \"case_summary\", \"solved\": "
                      \o (IF result.solved THEN "true" ELSE "false")
                      \o ", \"explanation\": \"" \o result.explanation
                      \o "\", \"missing_tools\": ["
                      \o JoinQuoted(result.missing_tools, "\"", ", ") \o "]}"]
      [] result.kind = "list" -> [ok |-> FALSE, text |-> "'list' object has no attribute 'model_dump'"]
      [] result.kind = "bool" -> [ok |-> FALSE, text |-> "'bool' object has no attribute 'model_dump'"]

\* The template of the success message; its two code-fence lines are left
\* out, a TLA+ string cannot hold a backquote.
SuccessContent(name, args, text) ==
    "\nTool named " \o name \o " was called with parameters:\n" \o ParamLines(args)
    \o "\nit's result was:\n" \o text \o "\n"

ProblemContent(text) == "There was a problem calling the tool! " \o text
NotFoundContent == "Tool not found in router"
NoHandlerContent == "No handler defined for tool"

ToolMessageNoId(tc, content, tcargs) ==
    OpenAIMessage("tool", tc.name, content, <<>>, NoId, tcargs)
ToolMessage(tc, content, tcargs) ==
    OpenAIMessage("tool", tc.name, content, <<>>, tc.id, tcargs)

\* if tool_call.function.name == closer.function.name: the bookkeeping
\* message, then return messages.
IsCloserCallNever(name) == FALSE
IsCloserCall(name) == name = CloserName

\* The dispatcher only reads the tool list (for tool in tools): whatever a
\* handler returns, the list stays as it is.
ToolsReplacedByGroup(ts, name, args, o) ==
    IF name = RouterName /\ o.kind = "return"
    THEN _route_to_tool_list[Get(args, "category")] ELSE ts
ToolsAfterCall(ts, name, args, o) == ts

\* tool_call.result = tool_result, on the call object the history holds.
AttachClearingCalls(msgs, at, i, result) ==
    [msgs EXCEPT ![at].tool_calls = <<>>]
AttachResult(msgs, at, i, result) ==
    [msgs EXCEPT ![at].tool_calls[i].result = result]

\* One iteration of the for loop of _handle_tool_calls.
DispatchCall ==
    /\ UNCHANGED <<concVars, seedVars, factoryVars>>
    /\ pc = "dispatch"
    /\ idx <= Len(tool_calls)
    /\ LET tc == tool_calls[idx]
           parsed == JsonLoads(tc.arguments)
       IN
       IF ~parsed.ok
       THEN \* json.loads is outside of every try block
            /\ pc' = "done"
            /\ ret' = Raised("JSONDecodeError")
            /\ UNCHANGED <<messages, idx, unlocked, invoked, tools>>
       ELSE IF tc.name \notin tools
       THEN /\ messages' = Append(messages, ToolMessage(tc, NotFoundContent, NoneVal))
            /\ idx' = idx + 1
            /\ UNCHANGED <<pc, ret, unlocked, invoked, tools>>
       ELSE IF ~HasHandler(tc.name)
       THEN /\ messages' = Append(messages, ToolMessage(tc, NoHandlerContent, NoneVal))
            /\ idx' = idx + 1
            /\ UNCHANGED <<pc, ret, unlocked, invoked, tools>>
       ELSE IF ~IsMapping(tc.arguments)
       THEN \* __call2log: kwargs.items() fails in _run_tool, and once more in
            \* the except Exception clause that logs through __call2log
            /\ pc' = "done"
            /\ ret' = Raised("AttributeError")
            /\ UNCHANGED <<messages, idx, unlocked, invoked, tools>>
       ELSE \E o \in _run_tool(tc.name, parsed.val) :
            /\ invoked' = Append(invoked, [id |-> tc.id, name |-> tc.name,
                                            kind |-> o.kind, text |-> o.text])
            /\ tools' = ToolsAfterCall(tools, tc.name, parsed.val, o)
            /\ CASE o.kind = "return" /\ IsCloserCall(tc.name) ->
                    /\ messages' = Append(AttachResult(messages, batchAt, idx, o.result),
                                          ToolMessage(tc, NoneVal, tc.arguments))
                    /\ pc' = "scan"
                    /\ UNCHANGED <<idx, ret, unlocked>>
                 [] o.kind = "return" /\ ~IsCloserCall(tc.name) ->
                    /\ messages' =
                         Append(AttachResult(messages, batchAt, idx, o.result),
                                IF DumpResult(o.result).ok
                                THEN ToolMessage(tc, SuccessContent(tc.name, parsed.val,
                                                     DumpResult(o.result).text), tc.arguments)
                                ELSE ToolMessage(tc, ProblemContent(DumpResult(o.result).text), NoneVal))
                    /\ unlocked' = IF tc.name = RouterName
                                   THEN unlocked \cup _route_to_tool_list[Get(parsed.val, "category")]
                                   ELSE unlocked
                    /\ idx' = idx + 1
                    /\ UNCHANGED <<pc, ret>>
                 [] o.kind = "PromptToolError" ->
                    \* exc.model(): PromptToolError has model_dump, no model
                    /\ pc' = "done"
                    /\ ret' = Raised("AttributeError")
                    /\ UNCHANGED <<messages, idx, unlocked>>
                 [] o.kind = "Exception" ->
                    /\ messages' = Append(messages, ToolMessage(tc, ProblemContent(o.text), NoneVal))
                    /\ idx' = idx + 1
                    /\ UNCHANGED <<pc, ret, unlocked>>
    /\ UNCHANGED <<batchAt, case_solved, summary, queries, nCalls>>

\* return messages before the for loop is over.
DispatchReturnEarly ==
    /\ UNCHANGED <<concVars, seedVars, factoryVars>>
    /\ pc = "dispatch"
    /\ pc' = "scan"
    /\ UNCHANGED <<tools, messages, batchAt, idx, case_solved, summary, ret,
                   queries, unlocked, invoked, nCalls>>

\* The session ends once the first batch has been dispatched.
DispatchReturnStops ==
    /\ UNCHANGED <<concVars, seedVars, factoryVars>>
    /\ pc = "dispatch"
    /\ idx > Len(tool_calls)
    /\ pc' = "done"
    /\ ret' = OpenAIPromptSummary(summary, <<>>, case_solved)
    /\ UNCHANGED <<tools, messages, batchAt, idx, case_solved, summary,
                   queries, unlocked, invoked, nCalls>>

\* The for loop is over: return messages.
DispatchReturn ==
    /\ UNCHANGED <<concVars, seedVars, factoryVars>>
    /\ pc = "dispatch"
    /\ idx > Len(tool_calls)
    /\ pc' = "scan"
    /\ UNCHANGED <<tools, messages, batchAt, idx, case_solved, summary, ret,
                   queries, unlocked, invoked, nCalls>>

\* --------------------------------------------------------- model gateway
\* The tool calls the model may emit: <<function name, argument string>>.
CallKinds ==
    {<<CloserName, ArgsCloserFixed>>, <<CloserName, ArgsCloserBlank>>,
     <<CloserName, ArgsCloserGaveUp>>, <<CloserName, ArgsEmpty>>,
     <<RouterName, ArgsKubernetes>>, <<RouterName, ArgsNoCategory>>,
     <<"delete_pod", ArgsPod>>, <<"delete_pod", ArgsBad>>,
     <<"approve_merge_request", ArgsMergeRequest>>, <<CloserName, ArgsList>>,
     <<UnknownName, ArgsEmpty>>, <<UnknownName, ArgsBad>>}

Contents == {NoneVal, ContentText, ContentLegacySolved, ContentLegacyGaveUp,
             ContentCloserShaped}

Batches(n) == UNION {[1..k -> CallKinds] : k \in 1..n}

\* __gpt_query returns None after a RateLimitError or a BadRequestError.
NoReply == [none |-> TRUE, content |-> NoneVal, calls |-> <<>>]

\* What __gpt_query may return when the model can still emit n tool calls.
GatewayReplies(n) ==
    {NoReply}
    \cup {[none |-> FALSE, content |-> c, calls |-> <<>>] : c \in Contents}
    \cup {[none |-> FALSE, content |-> NoneVal, calls |-> b] : b \in Batches(n)}

\* OpenAIMessage(**raw_ai_message): the calls get the next free ids.
ResponseMessage(r) ==
    OpenAIMessage("assistant", NoneVal, r.content,
                  [i \in 1..Len(r.calls) |->
                      OpenAIToolCall(nCalls + i, r.calls[i][1], r.calls[i][2])],
                  NoId, NoneVal)

\* The call __gpt_query(messages, model, tools) at one of the three sites.
Gateway(site, r) ==
    /\ Len(queries) < MaxQueries
    /\ queries' = Append(queries, [site |-> site, tools |-> tools, unlocked |-> unlocked,
                                   history |-> Len(messages), none |-> r.none])
    /\ nCalls' = nCalls + Len(r.calls)

\* if not response_message: return / break
NoResponseNever(r) == FALSE
NoResponse(r) == r.none

\* return OpenAIPromptSummary(data=summary, messages=[], resolved=case_solved)
FinalReturn(data, resolved) == OpenAIPromptSummary(data, <<>>, resolved)

\* ------------------------------------------------------ orchestrator loop
FirstTranscriptKeeps(m) == m.role \notin {"function", "tool", "developer"} /\ Truthy(m.content)
CloserTranscriptKeeps(m) == m.role \notin {"tool"} /\ Truthy(m.content)

\* The first Model Gateway call and what follows it up to the while loop.
Query1 ==
    /\ UNCHANGED <<concVars, seedVars, factoryVars>>
    /\ pc = "query1"
    /\ \E r \in GatewayReplies(MaxCalls - nCalls) :
        /\ Gateway(1, r)
        /\ IF NoResponse(r)
           THEN /\ ret' = OpenAIPromptSummary(NoResult,
                              Tail(SelectSeq(messages, FirstTranscriptKeeps)), FALSE)
                /\ pc' = "done"
                /\ UNCHANGED <<messages, batchAt, idx>>
           ELSE /\ messages' = Append(messages, ResponseMessage(r))
                /\ batchAt' = Len(messages) + 1
                /\ idx' = 1
                /\ pc' = "dispatch"
                /\ UNCHANGED ret
    /\ UNCHANGED <<tools, case_solved, summary, unlocked, invoked>>

\* [c for m in messages for c in m.tool_calls or []]
RECURSIVE AllCalls(_)
AllCalls(msgs) ==
    IF msgs = <<>> THEN <<>> ELSE Head(msgs).tool_calls \o AllCalls(Tail(msgs))

\* OpenAICaseSummary.model_validate(call.result.model_dump(exclude_none=True))
OpenAICaseSummary(r) ==
    [kind |-> "OpenAICaseSummary", solved |-> r.solved,
     explanation |-> r.explanation, missing_tools |-> r.missing_tools]

\* The for loop after _handle_tool_calls: the first call named after the
\* closer, anywhere in the history, ends the session.
ScanCloser ==
    /\ UNCHANGED <<concVars, seedVars, factoryVars>>
    /\ pc = "scan"
    /\ LET calls == AllCalls(messages)
           hits == {i \in 1..Len(calls) : calls[i].name = CloserName}
       IN
       IF hits # {}
       THEN LET call == calls[CHOOSE i \in hits : \A j \in hits : i <= j]
                case_summary == IF call.result.kind # "None"
                                THEN OpenAICaseSummary(call.result) ELSE NoResult
            IN /\ ret' = OpenAIPromptSummary(case_summary,
                            SelectSeq(SubSeq(messages, 3, Len(messages)), CloserTranscriptKeeps),
                            IF case_summary.kind # "None" THEN case_summary.solved ELSE FALSE)
               /\ pc' = "done"
       ELSE /\ pc' = "query2"
            /\ UNCHANGED ret
    /\ UNCHANGED <<tools, messages, batchAt, idx, case_solved, summary,
                   queries, unlocked, invoked, nCalls>>

\* The corrective user message (the backquotes around the closer's name are
\* left out).
CorrectiveMessage ==
    OpenAIMessage("user", NoneVal,
        "Use provided tools to solve the task, do not ask for permissions, just do things! If all other options are exhausted, run finish_reasoning and provide appropriate parameters!",
        <<>>, NoId, NoneVal)

\* OpenAICaseSummary.model_validate(d): solved and explanation are required.
ValidCaseSummary(d) == Has(d, "solved") /\ Has(d, "explanation")

LegacySummary(d) ==
    [kind |-> "OpenAICaseSummary", solved |-> Get(d, "solved"),
     explanation |-> Get(d, "explanation"),
     missing_tools |-> IF Has(d, "missing_tools") THEN Get(d, "missing_tools") ELSE NoneList]

\* The second Model Gateway call of the loop body down to the corrective
\* message: a response without tool calls is tried as legacy closer content.
Query2 ==
    /\ UNCHANGED <<concVars, seedVars, factoryVars>>
    /\ pc = "query2"
    /\ \E r \in GatewayReplies(MaxCalls - nCalls) :
        /\ Gateway(2, r)
        /\ IF NoResponse(r)
           THEN /\ ret' = FinalReturn(summary, case_solved)
                /\ pc' = "done"
                /\ UNCHANGED <<messages, batchAt, idx, case_solved, summary>>
           ELSE IF r.calls # <<>>
           THEN /\ messages' = Append(messages, ResponseMessage(r))
                /\ batchAt' = Len(messages) + 1
                /\ idx' = 1
                /\ pc' = "dispatch"
                /\ UNCHANGED <<ret, case_solved, summary>>
           ELSE LET parsed == JsonLoads(IF r.content = NoneVal THEN "" ELSE r.content)
                IN
                /\ batchAt' = Len(messages) + 1
                /\ idx' = 1
                /\ IF ~parsed.ok
                   THEN \* except json.JSONDecodeError: pass
                        /\ messages' = messages \o <<ResponseMessage(r), CorrectiveMessage>>
                        /\ pc' = "query3"
                        /\ UNCHANGED <<ret, case_solved, summary>>
                   ELSE IF ~Has(parsed.val, "arguments")
                   THEN /\ messages' = Append(messages, ResponseMessage(r))
                        /\ ret' = Raised("KeyError")
                        /\ pc' = "done"
                        /\ UNCHANGED <<case_solved, summary>>
                   ELSE IF ~ValidCaseSummary(Get(parsed.val, "arguments"))
                   THEN /\ messages' = Append(messages, ResponseMessage(r))
                        /\ ret' = Raised("ValidationError")
                        /\ pc' = "done"
                        /\ UNCHANGED <<case_solved, summary>>
                   ELSE /\ summary' = LegacySummary(Get(parsed.val, "arguments"))
                        /\ case_solved' = summary'.solved
                        /\ messages' = messages \o <<ResponseMessage(r),
                               OpenAIMessage("assistant", NoneVal, r.content, <<>>, NoId, NoneVal)>>
                        /\ ret' = FinalReturn(summary', case_solved')
                        /\ pc' = "done"
    /\ UNCHANGED <<tools, unlocked, invoked>>

\* The Model Gateway call after the corrective message; the loop goes on
\* with whatever tool calls the response carries.
Query3 ==
    /\ UNCHANGED <<concVars, seedVars, factoryVars>>
    /\ pc = "query3"
    /\ \E r \in GatewayReplies(MaxCalls - nCalls) :
        /\ Gateway(3, r)
        /\ IF NoResponse(r)
           THEN /\ ret' = FinalReturn(summary, case_solved)
                /\ pc' = "done"
                /\ UNCHANGED <<messages, batchAt, idx>>
           ELSE /\ messages' = Append(messages, ResponseMessage(r))
                /\ batchAt' = Len(messages) + 1
                /\ idx' = 1
                /\ pc' = "dispatch"
                /\ UNCHANGED ret
    /\ UNCHANGED <<tools, case_solved, summary, unlocked, invoked>>

Next ==
    \/ Seed
    \/ Query1
    \/ DispatchCall
    \/ DispatchReturn
    \/ ScanCloser
    \/ Query2
    \/ Query3

Spec == Init /\ [][Next]_vars

\* --------------------------------------------------- concurrent sessions
\* The process serves the webhook requests as coroutines of one event loop.
\* A session is reduced here to what it does to its message list and to the
\* limiter between two suspension points; its tool calls are the main
\* specification's matter.

\* Model Gateway calls one concurrent session may begin.
MaxAsks == 2
\* The largest clock value time reaches by itself.
MaxClock == 1
\* The largest OPENAI_API_RATE_LIMIT_REQUESTS tried.
MaxRate == 2
\* The largest OPENAI_API_RATE_LIMIT_TIMEWINDOW tried.
MaxWindow == 1

InitConc ==
    /\ tools = ToolsFlat
    /\ messages = <<>>
    /\ batchAt = 0
    /\ idx = 1
    /\ pc = "seed"
    /\ case_solved = FALSE
    /\ summary = NoResult
    /\ ret = Running
    /\ queries = <<>>
    /\ unlocked = {}
    /\ invoked = <<>>
    /\ nCalls = 0
    /\ settings \in [OPENAI_API_RATE_LIMIT_REQUESTS : 0..MaxRate,
                     OPENAI_API_RATE_LIMIT_TIMEWINDOW : 0..MaxWindow]
    /\ clock = 0
    /\ limiter = [last_reset |-> 0, num_calls |-> 0]
    /\ heap = [l \in 0..NumSessions |-> <<>>]
    /\ lists = [s \in Sessions |-> 0]
    /\ task = [s \in Sessions |-> "idle"]
    /\ asks = [s \in Sessions |-> 0]
    /\ windows = [n |-> 1, prev |-> 0]
    /\ passed = [count |-> 0, by |-> {}]
    /\ gate = [s \in Sessions |-> NoGate]
    /\ transcript = [s \in Sessions |-> <<>>]
    /\ SeedQuiet
    /\ FactoryQuiet

\* A message of a concurrent session: who appended it, its role, and
\* whether its content is truthy.
Owned(s, role, text) == [owner |-> s, role |-> role, text |-> text]

\* gpt_query called without a messages argument: the list of its default.
MessagesDefault(s) == 0
\* The list the endpoint creates for its request and passes as messages.
MessagesArgument(s) == s

\* limits(calls=..., period=...) as the decorator is applied.
limits_calls(st) == st.OPENAI_API_RATE_LIMIT_REQUESTS
PeriodZero(st) == 0
limits_period(st) == st.OPENAI_API_RATE_LIMIT_TIMEWINDOW

\* The limiter never allows fewer than one call per window.
clamped_calls(n) == IF n < 1 THEN 1 ELSE n

period_remaining(now) == limits_period(settings) - (now - limiter.last_reset)

\* One pass of session s through the limits wrapper at time now: the window
\* is reset once it is over, the call is counted, and the call either goes
\* on to the completion request or is rejected with the time left.
__avoid_ratelimits(s, now) ==
    LET reset == period_remaining(now) <= 0
        n == (IF reset THEN 0 ELSE limiter.num_calls) + 1
        start == IF reset THEN now ELSE limiter.last_reset
        g == IF task[s] = "sleep"
             THEN gate[s]
             ELSE [gate[s] EXCEPT !.tries = 0, !.w = 0, !.until = 0]
    IN /\ limiter' = [last_reset |-> start, num_calls |-> n]
       /\ windows' = IF reset
                     THEN [n |-> windows.n + 1, prev |-> limiter.last_reset]
                     ELSE windows
       /\ IF n > clamped_calls(limits_calls(settings))
          THEN /\ task' = [task EXCEPT ![s] = "sleep"]
               /\ gate' = [gate EXCEPT ![s] =
                              [g EXCEPT !.tries = @ + 1, !.w = windows'.n,
                                        !.until = now + period_remaining(now)]]
               /\ passed' = IF reset THEN [count |-> 0, by |-> {}] ELSE passed
          ELSE /\ task' = [task EXCEPT ![s] = "create"]
               /\ gate' = [gate EXCEPT ![s] =
                              [g EXCEPT !.passes = @ + 1, !.at = now, !.let = start]]
               /\ passed' = IF reset
                            THEN [count |-> 1, by |-> {s}]
                            ELSE [count |-> passed.count + 1, by |-> passed.by \cup {s}]

\* time.sleep holds the event loop: nothing else runs while a session
\* sleeps in the limiter.
NoSleeper == \A s \in Sessions : task[s] # "sleep"

\* A webhook request arrives: the endpoint makes its list, gpt_query seeds
\* it and goes to the first Model Gateway call, up to the limiter.
Request(s) ==
    /\ UNCHANGED <<sessionVars, seedVars, factoryVars>>
    /\ task[s] = "idle"
    /\ NoSleeper
    /\ LET l == MessagesArgument(s)
           h == heap[l]
           seeded == h \o (IF h = <<>> THEN <<Owned(s, "developer", TRUE)>> ELSE <<>>)
                       \o <<Owned(s, "user", TRUE)>>
       IN /\ lists' = [lists EXCEPT ![s] = l]
          /\ heap' = [heap EXCEPT ![l] = seeded]
    /\ asks' = [asks EXCEPT ![s] = 1]
    /\ __avoid_ratelimits(s, clock)
    /\ UNCHANGED <<settings, clock, transcript>>

\* sleep_and_retry: the sleep for the time left ends and the limiter is
\* tried again.
sleep_and_retry(s) ==
    /\ UNCHANGED <<sessionVars, seedVars, factoryVars>>
    /\ task[s] = "sleep"
    /\ LET now == clock + period_remaining(clock)
       IN /\ clock' = now
          /\ __avoid_ratelimits(s, now)
    /\ UNCHANGED <<settings, heap, lists, asks, transcript>>

\* What the completion request of a concurrent session may give: no
\* response, a response with content and a closer call that succeeds, or a
\* response with content only.
ConcReplies(s) ==
    {"none", "closer"} \cup (IF asks[s] < MaxAsks THEN {"bare"} ELSE {})

\* What a concurrent session appends for a reply; the tool message of a
\* handler that returned has no content. A reply with content only is
\* followed by the corrective user message at the loop's first query (the
\* second Model Gateway call, the fourth, ...), not at the first query of
\* the session nor at the query that follows the corrective message.
Appended(s, reply) ==
    CASE reply = "closer" -> <<Owned(s, "assistant", TRUE), Owned(s, "tool", FALSE)>>
      [] reply = "bare" ->
           <<Owned(s, "assistant", TRUE)>>
           \o (IF asks[s] >= 2 /\ asks[s] % 2 = 0
               THEN <<Owned(s, "user", TRUE)>> ELSE <<>>)
      [] OTHER -> <<>>

ConcFirstKeeps(m) == m.role \notin {"function", "tool", "developer"} /\ m.text
ConcCloserKeeps(m) == m.role \notin {"tool"} /\ m.text

\* The completion request of session s is answered and gpt_query runs on to
\* its return or to the limiter of its next Model Gateway call.
Response(s) ==
    /\ UNCHANGED <<sessionVars, seedVars, factoryVars>>
    /\ task[s] = "create"
    /\ NoSleeper
    /\ \E reply \in ConcReplies(s) :
        LET l == lists[s]
            h == heap[l] \o Appended(s, reply)
        IN /\ heap' = [heap EXCEPT ![l] = h]
           /\ IF reply = "none"
              THEN /\ transcript' = [transcript EXCEPT ![s] =
                                       IF asks[s] = 1
                                       THEN Tail(SelectSeq(h, ConcFirstKeeps))
                                       ELSE <<>>]
                   /\ task' = [task EXCEPT ![s] = "done"]
                   /\ UNCHANGED <<asks, limiter, windows, passed, gate>>
              ELSE IF reply = "closer"
              THEN /\ transcript' = [transcript EXCEPT ![s] =
                                       SelectSeq(SubSeq(h, 3, Len(h)), ConcCloserKeeps)]
                   /\ task' = [task EXCEPT ![s] = "done"]
                   /\ UNCHANGED <<asks, limiter, windows, passed, gate>>
              ELSE /\ asks' = [asks EXCEPT ![s] = @ + 1]
                   /\ __avoid_ratelimits(s, clock)
                   /\ UNCHANGED transcript
    /\ UNCHANGED <<settings, clock, lists>>

\* Time passes while the event loop runs or waits.
Tick ==
    /\ UNCHANGED <<sessionVars, seedVars, factoryVars>>
    /\ NoSleeper
    /\ clock < MaxClock
    /\ clock' = clock + 1
    /\ UNCHANGED <<settings, limiter, heap, lists, task, asks, windows,
                   passed, gate, transcript>>

NextConc ==
    \/ \E s \in Sessions : Request(s)
    \/ \E s \in Sessions : sleep_and_retry(s)
    \/ \E s \in Sessions : Response(s)
    \/ Tick

SpecConc == InitConc /\ [][NextConc]_vars

\* ===================================== the prompts of a webhook request
\* Replacement fields one format string may hold.
MaxFields == 2

\* The names the format strings and the endpoints use.
Placeholders == {"alert_summaries", "merge_request", "mr", "finish_function_name"}

\* A format string: whether it has literal text, and its replacement
\* fields in order.
Template(literal, fields) == [literal |-> literal, fields |-> fields]

\* The format strings the settings may hold; each is a str the environment
\* can override.
Templates ==
    {Template(l, f) : l \in BOOLEAN,
                      f \in UNION {[1..n -> Placeholders] : n \in 0..MaxFields}}

\* The defaults of settings.py.
GITLAB_WEBHOOK_PROMPT_FORMAT == Template(TRUE, <<"merge_request">>)
GITLAB_WEBHOOK_SYSTEM_PROMPT_FORMAT == Template(TRUE, <<>>)
GRAFANA_WEBHOOK_SYSTEM_PROMPT_FORMAT == Template(TRUE, <<>>)
GRAFANA_WEBHOOK_PROMPT_FORMAT == Template(TRUE, <<"alert_summaries">>)

\* Python truthiness of a format string: the empty str is falsy.
TemplateTruthy(t) == t.literal \/ t.fields # <<>>

\* The keyword arguments each endpoint hands to gpt_query.
grafana_webhook == [k \in {"alert_summaries"} |-> "alert summaries"]
gitlab_webhook == [k \in {"mr"} |-> "merge request attributes"]

Endpoints == {"grafana", "gitlab"}

\* The call of gpt_query an endpoint makes, with the format strings the
\* settings hold at that time.
Webhook(endpoint, prompt, system_prompt) ==
    [endpoint |-> endpoint, prompt |-> prompt, system_prompt |-> system_prompt,
     kwargs |-> IF endpoint = "grafana" THEN grafana_webhook ELSE gitlab_webhook]

\* kwargs["finish_function_name"] = closer.function.name
WithFinishFunctionName(kwargs) ==
    [k \in DOMAIN kwargs \cup {"finish_function_name"} |->
        IF k = "finish_function_name" THEN CloserName ELSE kwargs[k]]

\* template.format(**kwargs): every replacement field is looked up in
\* kwargs, the first one missing raises KeyError, keys no field names are
\* ignored.
Format(t, kwargs) ==
    LET missing == {i \in 1..Len(t.fields) : t.fields[i] \notin DOMAIN kwargs}
        first == CHOOSE i \in missing : \A j \in missing : i <= j
    IN  IF missing = {}
        THEN [exc |-> "", key |-> "",
              text |-> [literal |-> t.literal,
                        values |-> [i \in 1..Len(t.fields) |-> kwargs[t.fields[i]]]]]
        ELSE [exc |-> "KeyError", key |-> t.fields[first],
              text |-> [literal |-> FALSE, values |-> <<>>]]

\* gpt_query from its first line to the first Model Gateway call: the
\* system prompt is formatted when the history is empty and the format
\* string is truthy, with the closer's name added to the very dict the
\* user prompt is formatted with afterwards; an exception of format leaves
\* gpt_query with what was appended before it.
FormatPrompts ==
    /\ prompted.pc = "start"
    /\ LET with_system == prompted.messages = <<>> /\ TemplateTruthy(request.system_prompt)
           kwargs == IF with_system THEN WithFinishFunctionName(request.kwargs)
                     ELSE request.kwargs
           _system_prompt == Format(request.system_prompt, kwargs)
           _prompt == Format(request.prompt, kwargs)
           developer == IF with_system
                        THEN <<OpenAIMessage("developer", NoneVal, _system_prompt.text,
                                             <<>>, NoId, NoneVal)>>
                        ELSE <<>>
           user == <<OpenAIMessage("user", NoneVal, _prompt.text, <<>>, NoId, NoneVal)>>
       IN  prompted' =
             IF with_system /\ _system_prompt.exc # ""
             THEN [pc |-> "raised", messages |-> prompted.messages,
                   exc |-> _system_prompt.exc, key |-> _system_prompt.key]
             ELSE IF _prompt.exc # ""
             THEN [pc |-> "raised", messages |-> prompted.messages \o developer,
                   exc |-> _prompt.exc, key |-> _prompt.key]
             ELSE [pc |-> "query", messages |-> prompted.messages \o developer \o user,
                   exc |-> "", key |-> ""]
    /\ UNCHANGED <<request, sessionVars, concVars, factoryVars>>

\* No session of the tool-calling loop runs.
SessionQuiet ==
    /\ tools = ToolsFlat
    /\ messages = <<>>
    /\ batchAt = 0
    /\ idx = 1
    /\ pc = "seed"
    /\ case_solved = FALSE
    /\ summary = NoResult
    /\ ret = Running
    /\ queries = <<>>
    /\ unlocked = {}
    /\ invoked = <<>>
    /\ nCalls = 0

\* An endpoint calls gpt_query with messages = [] and the format strings
\* of the settings.
InitSeed ==
    /\ SessionQuiet
    /\ ConcQuiet
    /\ FactoryQuiet
    /\ request \in {Webhook(e, p, sp) : e \in Endpoints, p \in Templates, sp \in Templates}
    /\ prompted = [pc |-> "start", messages |-> <<>>, exc |-> "", key |-> ""]

NextSeed == FormatPrompts

SpecSeed == InitSeed /\ [][NextSeed]_vars

\* ============================================ GitlabMergeRequestFactory
\* Calls made on one factory.
MaxOps == 5

\* What the model passes to the three tools.
Paths == {"a.yaml", "b.yaml"}
StagedContents == {"v1", "v2"}
Titles == {"fix"}
Descriptions == {"why"}
CommitMessages == {"update"}

\* GitlabMergeRequest(title=..., description=..., target_branch="main",
\* source_branch="ai-test"): a new object, with the default of
\* merge_request_files, an empty dict of its own. The dict is kept as the
\* set of its items.
GitlabMergeRequest(title, description) ==
    [set |-> TRUE, title |-> title, description |-> description,
     target_branch |-> "main", source_branch |-> "ai-test",
     merge_request_files |-> {}]

\* self.merge_request_files[file_path] = file_contents
add_files(mr, file_path, file_contents) ==
    [mr EXCEPT !.merge_request_files =
        {f \in @ : f[1] # file_path} \cup {<<file_path, file_contents>>}]

\* One run of GitlabMergeRequest.commit_and_push: the exception it raised
\* ("" for none), the GitLab call that raised it, the GitLab calls made,
\* whether commits.create made the commit and whether mergerequests.create
\* made the merge request. The project lookup and the file listing are
\* outside every try, so their exceptions leave as they are (the file
\* listing looks the project up again before it reads the tree, and
\* either of its two calls may fail); an exception
\* of commits.create or of mergerequests.create is turned into a
\* PromptToolError.
Pushed(raised, at, calls, commit, merge_request) ==
    [raised |-> raised, at |-> at, calls |-> calls, commit |-> commit,
     merge_request |-> merge_request]

commit_and_push(mr, commit_message) ==
    { Pushed("Exception", "projects.get", 1, FALSE, FALSE),
      Pushed("Exception", "list_files_in_repository", 2, FALSE, FALSE),
      Pushed("Exception", "list_files_in_repository", 3, FALSE, FALSE),
      Pushed("PromptToolError", "commits.create", 4, FALSE, FALSE),
      Pushed("PromptToolError", "mergerequests.create", 5, TRUE, FALSE),
      Pushed("", "", 5, TRUE, TRUE) }

\* A factory method that did not reach GitlabMergeRequest.commit_and_push:
\* it raised the PromptToolError of one of its checks, or it returned.
Refused == Pushed("PromptToolError", "check", 0, FALSE, FALSE)
Done == Pushed("", "", 0, FALSE, FALSE)

\* if not self.__last_merge_request: no merge request was started.
NotStartedAlways(mr) == FALSE
NotStarted(mr) == ~mr.set

\* commit_and_push_merge_request after the await: the assignment
\* self.__last_merge_request.merge_request_files = {} is reached when
\* commit_and_push returned and skipped when it raised.
FilesKept(raised, files) == files
FilesCleared(raised, files) == {}
FilesAfterPush(raised, files) == IF raised = "" THEN {} ELSE files

\* One entry of ops: the method and its arguments, what it gave, and the
\* factory's merge request before and after it.
Args(file_path, file_contents) ==
    [file_path |-> file_path, file_contents |-> file_contents]

Op(name, args, outcome, before, after) ==
    [name |-> name, args |-> args, raised |-> outcome.raised, at |-> outcome.at,
     calls |-> outcome.calls, commit |-> outcome.commit,
     merge_request |-> outcome.merge_request,
     before |-> before, after |-> after]

InitFactory ==
    /\ SessionQuiet
    /\ ConcQuiet
    /\ SeedQuiet
    /\ FactoryQuiet

start_merge_request(title, description) ==
    /\ Len(ops) < MaxOps
    /\ last_merge_request' = GitlabMergeRequest(title, description)
    /\ ops' = Append(ops, Op("start_merge_request", Args(NoneVal, NoneVal), Done, last_merge_request,
                             last_merge_request'))
    /\ UNCHANGED <<sessionVars, concVars, seedVars>>

add_file_to_merge_request(file_path, file_contents) ==
    /\ Len(ops) < MaxOps
    /\ IF NotStarted(last_merge_request)
       THEN /\ last_merge_request' = last_merge_request
            /\ ops' = Append(ops, Op("add_file_to_merge_request",
                                     Args(file_path, file_contents), Refused,
                                     last_merge_request, last_merge_request'))
       ELSE /\ last_merge_request' = add_files(last_merge_request, file_path,
                                               file_contents)
            /\ ops' = Append(ops, Op("add_file_to_merge_request",
                                     Args(file_path, file_contents), Done,
                                     last_merge_request, last_merge_request'))
    /\ UNCHANGED <<sessionVars, concVars, seedVars>>

commit_and_push_merge_request(commit_message) ==
    /\ Len(ops) < MaxOps
    /\ IF NotStarted(last_merge_request)
          \/ last_merge_request.merge_request_files = {}
       THEN /\ last_merge_request' = last_merge_request
            /\ ops' = Append(ops, Op("commit_and_push_merge_request",
                                     Args(NoneVal, NoneVal), Refused,
                                     last_merge_request, last_merge_request'))
       ELSE \E o \in commit_and_push(last_merge_request, commit_message) :
            /\ last_merge_request' =
                 [last_merge_request EXCEPT !.merge_request_files =
                     FilesAfterPush(o.raised, @)]
            /\ ops' = Append(ops, Op("commit_and_push_merge_request",
                                     Args(NoneVal, NoneVal), o,
                                     last_merge_request, last_merge_request'))
    /\ UNCHANGED <<sessionVars, concVars, seedVars>>

NextFactory ==
    \/ \E title \in Titles, description \in Descriptions :
          start_merge_request(title, description)
    \/ \E file_path \in Paths, file_contents \in StagedContents :
          add_file_to_merge_request(file_path, file_contents)
    \/ \E commit_message \in CommitMessages :
          commit_and_push_merge_request(commit_message)

SpecFactory == InitFactory /\ [][NextFactory]_vars

\* ================================================================ claims
Finished == pc = "done"
Returned == Finished /\ ret.state = "returned"
ToolMessages == {i \in 1..Len(messages) : messages[i].role = "tool"}
AnswersTo(id) == {i \in ToolMessages : messages[i].tool_call_id = id}
InvokedIds == {invoked[k].id : k \in 1..Len(invoked)}
AssistantAt == {a \in 1..Len(messages) : messages[a].role = "assistant"}

\* C1: gpt_query never lets an exception of the loop or of the dispatcher
\* reach its caller; it always returns a result object.
C1_NoExceptionEscapes == ret.state # "raised"

\* C2: a tool call whose argument string is not valid JSON gets an error
\* tool message and the dispatcher moves on to the next call; nothing is
\* raised.
C2_MalformedArgsAnswered ==
    [][(pc = "dispatch" /\ idx <= Len(tool_calls)
        /\ ~JsonLoads(tool_calls[idx].arguments).ok)
       => /\ Len(messages') = Len(messages) + 1
          /\ messages'[Len(messages')].role = "tool"
          /\ messages'[Len(messages')].tool_call_id = tool_calls[idx].id
          /\ idx' = idx + 1
          /\ pc' = "dispatch"
          /\ ret'.state = "running"]_vars

\* C3: every handler run that raised a PromptToolError is answered by one
\* tool message whose content is the error's message text, and the session
\* did not end by an exception.
C3_ToolErrorReported ==
    \A k \in 1..Len(invoked) :
        invoked[k].kind = "PromptToolError"
        => /\ Cardinality(AnswersTo(invoked[k].id)) = 1
           /\ \A i \in AnswersTo(invoked[k].id) : messages[i].content = invoked[k].text
           /\ ret.state # "raised"

\* C4: in a batch with a successfully processed closer call at position j,
\* the calls 1..j are answered one by one in emission order right after the
\* assistant message, and no later call of the batch has run a handler, got
\* a result or got a tool message.
CloserProcessed(a, j) ==
    /\ messages[a].tool_calls[j].name = CloserName
    /\ messages[a].tool_calls[j].result.kind = "CaseSummary"

C4_CloserEndsBatch ==
    \A a \in AssistantAt :
        \A j \in 1..Len(messages[a].tool_calls) :
            CloserProcessed(a, j)
            => LET calls == messages[a].tool_calls IN
               /\ \A i \in 1..j :
                    /\ a + i <= Len(messages)
                    /\ messages[a + i].role = "tool"
                    /\ messages[a + i].tool_call_id = calls[i].id
                    /\ AnswersTo(calls[i].id) = {a + i}
               /\ \A k \in (j + 1)..Len(calls) :
                    /\ calls[k].id \notin InvokedIds
                    /\ calls[k].result = NoResult
                    /\ AnswersTo(calls[k].id) = {}

\* C4 witness: a finished session whose batch had the closer first and,
\* after it, a call of a tool with a handler and arguments that fit it.
C4_Witness ==
    /\ Returned
    /\ \E a \in AssistantAt :
        /\ Len(messages[a].tool_calls) >= 2
        /\ CloserProcessed(a, 1)
        /\ messages[a].tool_calls[2].name = "delete_pod"
        /\ messages[a].tool_calls[2].arguments = ArgsPod

\* C5: when an assistant turn carries a closer call with arguments
\* {solved: s, explanation: e, missing_tools: m} (the first call named after
\* the closer in the session), the session returns resolved = s,
\* data.explanation = e and data.missing_tools = m, [] when m is absent.
C5_CloserArgumentsReturned ==
    Finished =>
      LET calls == AllCalls(messages)
          hits == {i \in 1..Len(calls) : calls[i].name = CloserName}
      IN hits # {} =>
         LET call == calls[CHOOSE i \in hits : \A j \in hits : i <= j]
             parsed == JsonLoads(call.arguments)
         IN (parsed.ok /\ Fits(parsed.val, {"solved", "explanation"}, {"missing_tools"}))
            => /\ ret.state = "returned"
               /\ ret.resolved = Get(parsed.val, "solved")
               /\ ret.data.explanation = Get(parsed.val, "explanation")
               /\ ret.data.missing_tools = (IF Has(parsed.val, "missing_tools")
                                           THEN Get(parsed.val, "missing_tools") ELSE <<>>)

\* C6: after two consecutive assistant turns without tool calls, the second
\* of which has no JSON content, the session has ended with resolved=false
\* and the second turn is the last answer of the Model Gateway.
C6_TwoBareTurnsExhaust ==
    LET turns == SelectSeq(messages, LAMBDA m : m.role = "assistant") IN
    \A k \in 1..(Len(turns) - 1) :
        (/\ turns[k].tool_calls = <<>>
         /\ turns[k + 1].tool_calls = <<>>
         /\ ~JsonLoads(IF turns[k + 1].content = NoneVal THEN "" ELSE turns[k + 1].content).ok)
        => /\ Returned
           /\ ret.resolved = FALSE
           /\ k + 1 = Len(turns)

\* C7: at every Model Gateway call, every tool of a group the router has
\* returned before is among the tools offered, and no call of the answer to
\* that query to such a tool is answered "not found".
C7_UnlockedGroupActive ==
    \A q \in 1..Len(queries) :
        /\ queries[q].unlocked \subseteq queries[q].tools
        /\ (~queries[q].none /\ queries[q].history < Len(messages))
           => LET answer == messages[queries[q].history + 1] IN
              \A c \in 1..Len(answer.tool_calls) :
                  \A i \in AnswersTo(answer.tool_calls[c].id) :
                      messages[i].content = NotFoundContent
                      => answer.tool_calls[c].name \notin queries[q].unlocked

\* C8: a call whose function name is not in the active tool set gets exactly
\* one "not found" tool message, nothing is raised, and the dispatcher goes
\* on with the next call.
C8_UnknownToolAnswered ==
    [][(pc = "dispatch" /\ idx <= Len(tool_calls) /\ tool_calls[idx].name \notin tools)
       => /\ messages' = Append(messages,
                ToolMessage(tool_calls[idx], NotFoundContent, NoneVal))
          /\ idx' = idx + 1
          /\ pc' = "dispatch"
          /\ ret'.state = "running"]_vars

\* C9: a Model Gateway call that returned no response is the last call of
\* the session, whatever its site, and the session has returned
\* resolved=false.
C9_NoResponseEnds ==
    \A q \in 1..Len(queries) :
        queries[q].none
        => /\ q = Len(queries)
           /\ Returned
           /\ ret.resolved = FALSE

\* C9 witness: the call after the corrective message got no response, after
\* two calls that were answered.
C9_Witness ==
    /\ Len(queries) = 3
    /\ queries[3].none
    /\ queries[3].site = 3
    /\ Returned

\* C10: a returned result has a boolean resolved, and resolved = true comes
\* with an Outcome whose explanation is a non-empty string.
C10_ResolvedHasExplanation ==
    Returned
    => /\ ret.resolved \in BOOLEAN
       /\ ret.resolved => (ret.data.kind # "None" /\ ret.data.explanation # "")

\* The call object with the given id, wherever the history holds it.
CallOf(id) ==
    LET calls == AllCalls(messages)
    IN calls[CHOOSE i \in 1..Len(calls) : calls[i].id = id]

\* C11: every run of a non-closer handler that returned, whatever the kind
\* of the value, is answered by exactly one tool message of the success form
\* (it carries the call's arguments) and not by the problem message.
C11_SuccessSummarised ==
    \A k \in 1..Len(invoked) :
        (invoked[k].kind = "return" /\ invoked[k].name # CloserName)
        => /\ Cardinality(AnswersTo(invoked[k].id)) = 1
           /\ \A i \in AnswersTo(invoked[k].id) :
                /\ messages[i].tool_call_arguments = CallOf(invoked[k].id).arguments
                /\ messages[i].content
                     # ProblemContent(DumpResult(CallOf(invoked[k].id).result).text)

\* handler(**parsed_args) can bind its parameters.
ArgsFit(name, arguments) ==
    /\ IsMapping(arguments)
    /\ CASE name = RouterName -> Fits(JsonLoads(arguments).val, {"category"}, {})
         [] name = CloserName ->
              Fits(JsonLoads(arguments).val, {"solved", "explanation"}, {"missing_tools"})
         [] name = "approve_merge_request" -> Fits(JsonLoads(arguments).val, {"mr_id"}, {})
         [] OTHER -> Fits(JsonLoads(arguments).val, {"namespace", "pod_name"}, {})

\* C12: a dispatched call whose handler raises an exception other than
\* PromptToolError, or whose parsed arguments do not fit the handler, gets
\* one generic problem message; the dispatcher goes on and nothing is raised.
C12_HandlerCrashAnswered ==
    [][(/\ pc = "dispatch" /\ idx <= Len(tool_calls)
        /\ JsonLoads(tool_calls[idx].arguments).ok
        /\ tool_calls[idx].name \in tools
        /\ HasHandler(tool_calls[idx].name)
        /\ \/ ~ArgsFit(tool_calls[idx].name, tool_calls[idx].arguments)
           \/ /\ Len(invoked') = Len(invoked) + 1
              /\ invoked'[Len(invoked')].kind = "Exception")
       => /\ Len(messages') = Len(messages) + 1
          /\ messages'[Len(messages')].role = "tool"
          /\ messages'[Len(messages')].tool_call_id = tool_calls[idx].id
          /\ \E t \in {"TypeError", "ConfigException", "GitlabGetError"} :
                messages'[Len(messages')].content = ProblemContent(t)
          /\ idx' = idx + 1
          /\ pc' = "dispatch"
          /\ ret'.state = "running"]_vars

\* C13: when the answer to a Model Gateway call carried no tool calls and
\* another call follows, exactly the answer and one corrective user message
\* were appended between the two calls.
C13_CorrectiveBeforeNextQuery ==
    \A q \in 2..Len(queries) :
        LET before == queries[q - 1].history IN
        messages[before + 1].tool_calls = <<>>
        => /\ queries[q].history = before + 2
           /\ messages[before + 2] = CorrectiveMessage

\* C14: when the second of two consecutive responses without tool calls has
\* content that is a JSON object shaped like the closer's arguments, the
\* session has returned that Outcome, with resolved equal to its solved.
C14_LegacyContentTerminates ==
    LET turns == SelectSeq(messages, LAMBDA m : m.role = "assistant") IN
    \A k \in 1..(Len(turns) - 1) :
        (/\ turns[k].tool_calls = <<>>
         /\ turns[k + 1].tool_calls = <<>>
         /\ turns[k + 1].content = ContentCloserShaped)
        => LET d == JsonLoads(turns[k + 1].content).val IN
           /\ Returned
           /\ ret.resolved = Get(d, "solved")
           /\ ret.data.kind = "OpenAICaseSummary"
           /\ ret.data.solved = Get(d, "solved")
           /\ ret.data.explanation = Get(d, "explanation")
           /\ ret.data.missing_tools = Get(d, "missing_tools")

\* C17: the transcript a finished session returns is the subsequence of its
\* history made of the messages whose role is neither system/developer nor
\* tool.
C17_TranscriptIsFilteredHistory ==
    Returned
    => ret.messages = SelectSeq(messages,
                        LAMBDA m : m.role \notin {"system", "developer", "tool"})

\* C18: the tool set passed to each Model Gateway call contains the set of
\* the call before, and the set the dispatcher resolves against contains the
\* one last offered.
C18_ToolSetNeverShrinks ==
    /\ \A q \in 1..(Len(queries) - 1) : queries[q].tools \subseteq queries[q + 1].tools
    /\ \A q \in 1..Len(queries) : queries[q].tools \subseteq tools

\* C18 witness: a second Model Gateway call after the router returned a
\* group.
C18_Witness ==
    /\ Len(queries) >= 2
    /\ queries[2].unlocked # {}
    /\ queries[1].unlocked = {}

CloserSuccesses ==
    {k \in 1..Len(invoked) : invoked[k].name = CloserName /\ invoked[k].kind = "return"}

\* C19 as stated: every finished session has an Outcome, and it is the
\* result of the one successful closer invocation.
C19_OutcomeOnlyFromCloser ==
    Finished
    => /\ ret.data.kind # "None"
       /\ Cardinality(CloserSuccesses) = 1
       /\ \E a \in AssistantAt : \E j \in 1..Len(messages[a].tool_calls) :
            /\ CloserProcessed(a, j)
            /\ ret.data = OpenAICaseSummary(messages[a].tool_calls[j].result)

\* C19 amended: the closer handler succeeds at most once per session, a
\* session has no Outcome before it ends and returns at most one, and a
\* returned Outcome is the result of that closer invocation or the summary
\* parsed from the legacy content of the last response.
C19_AtMostOneOutcome ==
    /\ Cardinality(CloserSuccesses) <= 1
    /\ ~Finished => ret.data = NoResult
    /\ (Returned /\ ret.data.kind # "None")
       => \/ \E a \in AssistantAt : \E j \in 1..Len(messages[a].tool_calls) :
               /\ CloserProcessed(a, j)
               /\ ret.data = OpenAICaseSummary(messages[a].tool_calls[j].result)
          \/ /\ CloserSuccesses = {}
             /\ messages[Len(messages)].content \in {ContentLegacySolved, ContentLegacyGaveUp}
             /\ ret.data = LegacySummary(Get(JsonLoads(messages[Len(messages)].content).val,
                                             "arguments"))

\* C19 witness: a session that returned the Outcome of the first of two
\* closer calls of one batch.
C19_Witness ==
    /\ Returned
    /\ ret.data.kind = "OpenAICaseSummary"
    /\ \E a \in AssistantAt :
        /\ Len(messages[a].tool_calls) >= 2
        /\ CloserProcessed(a, 1)
        /\ messages[a].tool_calls[2].name = CloserName

\* The dispatcher is through with the batch of the assistant message at a.
BatchOver(a) == a < batchAt \/ (a = batchAt /\ pc # "dispatch")

\* C20: once a batch of k calls without a closer call is over, the k
\* messages after the assistant message are tool messages, the i-th
\* answering the i-th call, and each call has exactly that one answer.
C20_OneAnswerPerCall ==
    \A a \in AssistantAt :
        (/\ BatchOver(a)
         /\ \A i \in 1..Len(messages[a].tool_calls) :
              messages[a].tool_calls[i].name # CloserName)
        => \A i \in 1..Len(messages[a].tool_calls) :
              /\ a + i <= Len(messages)
              /\ messages[a + i].role = "tool"
              /\ messages[a + i].tool_call_id = messages[a].tool_calls[i].id
              /\ AnswersTo(messages[a].tool_calls[i].id) = {a + i}

WindowLength ==
    IF settings.OPENAI_API_RATE_LIMIT_TIMEWINDOW < 1
    THEN 1 ELSE settings.OPENAI_API_RATE_LIMIT_TIMEWINDOW

\* The calls one window lets through: the limit, or one when the limit is
\* below one.
EffectiveLimit ==
    IF settings.OPENAI_API_RATE_LIMIT_REQUESTS < 1
    THEN 1 ELSE settings.OPENAI_API_RATE_LIMIT_REQUESTS

\* How the limiter treats the calls beyond those a window lets through,
\* when a window lets through at most limit calls: a window starts T
\* seconds or more after the one before and every pass lies within its
\* window; a call is rejected only by a full window and only once, it
\* passes in a later window that started when the rejecting one was over,
\* and no begun call is lost.
DelayedNotDropped(limit) ==
    /\ windows.n >= 2
       => limiter.last_reset >= windows.prev + settings.OPENAI_API_RATE_LIMIT_TIMEWINDOW
    /\ \A s \in Sessions :
          /\ gate[s].tries <= 1
          /\ gate[s].passes + (IF task[s] = "sleep" THEN 1 ELSE 0) = asks[s]
          /\ gate[s].passes >= 1
             => /\ gate[s].let <= gate[s].at
                /\ gate[s].at < gate[s].let + WindowLength
          /\ task[s] = "sleep"
             => /\ gate[s].tries = 1
                /\ passed.count >= limit
                /\ clock < gate[s].until
          /\ (task[s] = "create" /\ gate[s].tries = 1)
             => /\ windows.n > gate[s].w
                /\ gate[s].let >= gate[s].until

\* C15 as stated: with a limit of N calls per window of T seconds, at most
\* N calls of all sessions together pass the limiter in one window, for
\* every N the settings may hold; the call after those is delayed until
\* the window advances and then let through, not dropped.
C15_AtMostNCallsPass ==
    /\ passed.count <= settings.OPENAI_API_RATE_LIMIT_REQUESTS
    /\ DelayedNotDropped(settings.OPENAI_API_RATE_LIMIT_REQUESTS)

\* C15 amended: with a limit of N calls per window of T seconds, at most
\* max(N, 1) calls of all sessions together pass the limiter in one
\* window, a limit below one (the default 0) counting as one; the call
\* after those is delayed until the window advances and then let through,
\* not dropped.
C15_LimiterPacesCalls ==
    /\ passed.count <= EffectiveLimit
    /\ DelayedNotDropped(EffectiveLimit)

\* C15 witness: a limit of one call per window; a session's call was
\* rejected by a window that had let another session's call through, and
\* has passed in a later window.
C15_Witness ==
    /\ settings.OPENAI_API_RATE_LIMIT_REQUESTS = 1
    /\ settings.OPENAI_API_RATE_LIMIT_TIMEWINDOW >= 1
    /\ \E s, t \in Sessions :
        /\ s # t
        /\ task[s] = "create"
        /\ gate[s].tries = 1
        /\ gate[t].passes >= 1
        /\ gate[t].let < gate[s].until
        /\ gate[t].let + settings.OPENAI_API_RATE_LIMIT_TIMEWINDOW = gate[s].until

Started == {s \in Sessions : task[s] # "idle"}

\* C16: the message list of every running or finished session holds only
\* messages that session appended, no two sessions share a list, and the
\* transcript a session returned holds only its own messages.
C16_HistoriesIsolated ==
    \A s \in Started :
        /\ \A i \in 1..Len(heap[lists[s]]) : heap[lists[s]][i].owner = s
        /\ \A i \in 1..Len(transcript[s]) : transcript[s][i].owner = s
        /\ \A t \in Started \ {s} : lists[t] # lists[s]

\* C16 witness: one session has returned a transcript while another, begun
\* before that, is waiting for its second completion.
C16_Witness ==
    \E s, t \in Started :
        /\ s # t
        /\ task[s] = "done"
        /\ transcript[s] # <<>>
        /\ task[t] = "create"
        /\ asks[t] = 2
        /\ Len(heap[lists[t]]) >= 3

\* The nearest assistant message at or before position h (0 when none).
RECURSIVE LastAssistant(_)
LastAssistant(h) ==
    IF h = 0 THEN 0
    ELSE IF h <= Len(messages) /\ messages[h].role = "assistant" THEN h
    ELSE LastAssistant(h - 1)

CallIds(a) == {messages[a].tool_calls[j].id : j \in 1..Len(messages[a].tool_calls)}

\* C21: every tool message comes after an assistant message, and its
\* tool_call_id is the id of a tool call of the nearest assistant message
\* before it.
C21_ToolMessageAnswersLatestTurn ==
    \A i \in ToolMessages :
        /\ LastAssistant(i) # 0
        /\ messages[i].tool_call_id \in CallIds(LastAssistant(i))

\* C21 witness: two assistant turns with tool calls, each answered by a
\* tool message before the next turn.
C21_Witness ==
    \E a, b \in AssistantAt :
        /\ a < b
        /\ messages[a].tool_calls # <<>>
        /\ messages[b].tool_calls # <<>>
        /\ \E i \in ToolMessages : a < i /\ i < b
        /\ \E i \in ToolMessages : b < i

\* C22: a Model Gateway call is made with a history longer than that of the
\* call before, in which every tool call of the latest assistant message has
\* a tool message after it; and while the session waits to query, the
\* dispatcher is through with its batch.
C22_QueriesFollowAnsweredTurns ==
    /\ \A q \in 2..Len(queries) :
          LET h == queries[q].history
              a == LastAssistant(h)
          IN /\ queries[q - 1].history < h
             /\ a # 0
             /\ \A id \in CallIds(a) :
                   \E i \in ToolMessages : a < i /\ i <= h /\ messages[i].tool_call_id = id
    /\ pc \in {"query2", "query3"} => idx > Len(tool_calls)

\* C22 witness: a second Model Gateway call made after both calls of the
\* first response were answered.
C22_Witness ==
    /\ Len(queries) >= 2
    /\ Len(messages[3].tool_calls) = 2
    /\ queries[2].history = 5

\* The closer-named call j of the assistant message at a was dispatched and
\* gave no result: its handler ran and failed, or the dispatcher raised on
\* it.
CloserFailed(a, j) ==
    /\ messages[a].tool_calls[j].name = CloserName
    /\ messages[a].tool_calls[j].result = NoResult
    /\ \/ messages[a].tool_calls[j].id \in InvokedIds
       \/ a = batchAt /\ idx = j /\ ret.state = "raised"

\* C23: once the batch of a closer-named call that was dispatched and gave
\* no Outcome is over, no Model Gateway call follows it, and the session
\* ends returned, with resolved = false and no Outcome data.
C23_FailedCloserStillEnds ==
    \A a \in AssistantAt :
        \A j \in 1..Len(messages[a].tool_calls) :
            (CloserFailed(a, j) /\ BatchOver(a))
            => /\ \A q \in 1..Len(queries) : queries[q].history < a
               /\ Finished => /\ Returned
                              /\ ~ret.resolved
                              /\ ret.data = NoResult

\* C24: every step leaves the serialised messages of the history where they
\* are and as they are; the history only grows at its end.
C24_HistoryAppendOnly ==
    [][/\ Len(messages') >= Len(messages)
       /\ \A i \in 1..Len(messages) : model_dump(messages'[i]) = model_dump(messages[i])]_vars

\* C24 witness: a handler's result was attached to a call of an assistant
\* message, and messages were appended after it.
C24_Witness ==
    \E a \in AssistantAt :
        /\ Len(messages[a].tool_calls) >= 1
        /\ messages[a].tool_calls[1].result # NoResult
        /\ \E b \in AssistantAt : a < b

\* Response q of the Model Gateway carried tool calls, none named after the
\* closer.
OrdinaryTurn(q) ==
    /\ ~queries[q].none
    /\ messages[queries[q].history + 1].tool_calls # <<>>
    /\ \A j \in 1..Len(messages[queries[q].history + 1].tool_calls) :
          messages[queries[q].history + 1].tool_calls[j].name # CloserName

EndCause ==
    \/ \E q \in 1..Len(queries) : queries[q].none
    \/ \E a \in AssistantAt : \E j \in 1..Len(messages[a].tool_calls) :
          /\ messages[a].tool_calls[j].name = CloserName
          /\ messages[a].tool_calls[j].id \in InvokedIds
    \/ summary # NoResult

\* C25: a session returns only after a Model Gateway call gave no response,
\* a closer-named call was dispatched, or legacy content was parsed; as long
\* as every response carries tool calls and none is named after the closer,
\* the session has not returned, whatever the number of queries.
C25_EndsOnlyOnCause ==
    /\ Returned => EndCause
    /\ (\A q \in 1..Len(queries) : OrdinaryTurn(q)) => ~Returned

\* C25 witness: two responses with ordinary tool calls were dispatched and
\* the session is about to query a third time.
C25_Witness ==
    /\ Len(queries) = 2
    /\ \A q \in 1..Len(queries) : OrdinaryTurn(q)
    /\ pc = "query2"
    /\ ret = Running

\* The seeded requests of the two endpoints under the default settings.
DefaultRequests ==
    {Webhook("grafana", GRAFANA_WEBHOOK_PROMPT_FORMAT,
             GRAFANA_WEBHOOK_SYSTEM_PROMPT_FORMAT),
     Webhook("gitlab", GITLAB_WEBHOOK_PROMPT_FORMAT,
             GITLAB_WEBHOOK_SYSTEM_PROMPT_FORMAT)}

Roles(h) == [i \in 1..Len(h) |-> h[i].role]

\* C26: for each of the two webhook endpoints, with the prompt templates
\* of the settings, formatting raises nothing: gpt_query appends the
\* formatted developer message and the formatted user message and reaches
\* its first Model Gateway call.
C26_PromptsCovered ==
    (request \in DefaultRequests /\ prompted.pc # "start")
        => /\ prompted.pc = "query"
           /\ Roles(prompted.messages) = <<"developer", "user">>

\* C27: while one session waits in the limiter for the window to end, a
\* session whose completion request is pending can still be answered and
\* go on.
C27_OnlyTheCallerWaits ==
    \A s \in Sessions, t \in Sessions :
        (s # t /\ task[s] = "sleep" /\ task[t] = "create") => ENABLED Response(t)

FactoryOps == 1..Len(ops)
StartedBefore(k) == \E j \in 1..(k - 1) : ops[j].name = "start_merge_request"
AddedAt(j) == ops[j].name = "add_file_to_merge_request" /\ ops[j].raised = ""
PushAt(k) == ops[k].name = "commit_and_push_merge_request"

\* The dict after is the dict before with args staged.
Stages(o) ==
    /\ <<o.args.file_path, o.args.file_contents>> \in o.after.merge_request_files
    /\ \A f \in o.after.merge_request_files :
          f[1] = o.args.file_path => f[2] = o.args.file_contents
    /\ \A f \in o.before.merge_request_files :
          f[1] # o.args.file_path => f \in o.after.merge_request_files
    /\ \A f \in o.after.merge_request_files :
          f[1] # o.args.file_path => f \in o.before.merge_request_files
    /\ [o.after EXCEPT !.merge_request_files = {}]
         = [o.before EXCEPT !.merge_request_files = {}]

\* C28: add_file_to_merge_request and commit_and_push_merge_request called
\* before any start_merge_request raise a ToolError, make no GitLab call
\* and leave the factory as it was; after a start_merge_request,
\* add_file_to_merge_request stages the file.
C28_NothingBeforeStart ==
    \A k \in FactoryOps :
        /\ (ops[k].name # "start_merge_request" /\ ~StartedBefore(k))
              => /\ ops[k].raised = "PromptToolError"
                 /\ ops[k].calls = 0
                 /\ ops[k].after = ops[k].before
        /\ (ops[k].name = "add_file_to_merge_request" /\ StartedBefore(k))
              => /\ ops[k].raised = ""
                 /\ ops[k].calls = 0
                 /\ Stages(ops[k])

C28_Witness ==
    \E i \in FactoryOps, j \in FactoryOps, k \in FactoryOps :
        /\ i < k /\ j < k
        /\ ops[i].name = "add_file_to_merge_request" /\ ops[i].raised = "PromptToolError"
        /\ PushAt(j) /\ ops[j].raised = "PromptToolError" /\ ~StartedBefore(j)
        /\ AddedAt(k)
        /\ ops[k].before.merge_request_files # {}
        /\ ops[k].after.merge_request_files # ops[k].before.merge_request_files

\* A push with nothing staged is refused, and a push that returned leaves
\* nothing staged.
PushNeedsFiles ==
    \A k \in FactoryOps :
        PushAt(k) =>
            /\ (~ops[k].before.set \/ ops[k].before.merge_request_files = {})
                  => ops[k].raised = "PromptToolError" /\ ops[k].calls = 0
            /\ ops[k].raised = "" => ops[k].after.merge_request_files = {}

\* Every commit made follows an add_file_to_merge_request with no push that
\* returned in between.
CommitFollowsAdd ==
    \A k \in FactoryOps :
        ops[k].commit =>
            \E j \in 1..(k - 1) :
                /\ AddedAt(j)
                /\ \A m \in (j + 1)..(k - 1) : ~(PushAt(m) /\ ops[m].raised = "")

\* C29 as stated: commit_and_push_merge_request raises a ToolError whenever
\* no file is staged; after every successful commit the staged set is
\* empty; so no two commits are made of the same staged files, and every
\* commit follows an add_file_to_merge_request since the last successful
\* commit.
C29_NoFilesCommittedTwice ==
    /\ PushNeedsFiles
    /\ CommitFollowsAdd
    /\ \A i \in FactoryOps, k \in FactoryOps :
          (i < k /\ ops[i].commit /\ ops[k].commit)
              => \E j \in (i + 1)..(k - 1) : AddedAt(j)

\* C29 amended: commit_and_push_merge_request raises a ToolError whenever
\* no file is staged; after every commit_and_push_merge_request that
\* returned the staged set is empty; so after a push that returned no
\* commit is made before another add_file_to_merge_request, and every
\* commit follows an add_file_to_merge_request since the last push that
\* returned. A push that raised after making its commit keeps the files,
\* and the next push commits them again.
C29_NoCommitAfterReturnedPush ==
    /\ PushNeedsFiles
    /\ CommitFollowsAdd
    /\ \A i \in FactoryOps, k \in FactoryOps :
          (i < k /\ ops[i].commit /\ ops[i].raised = "" /\ ops[k].commit)
              => \E j \in (i + 1)..(k - 1) : AddedAt(j)

C29_Witness ==
    \E i \in FactoryOps, k \in FactoryOps :
        /\ i < k
        /\ PushAt(i) /\ ops[i].raised = "" /\ ops[i].commit
        /\ ops[i].after.merge_request_files = {}
        /\ PushAt(k) /\ ops[k].raised = "PromptToolError" /\ ops[k].at = "check"
        /\ ops[k].before.set
        /\ \A j \in (i + 1)..(k - 1) : ~AddedAt(j)

\* C30: a commit_and_push_merge_request that raises a ToolError, at the
\* commit or at the merge request, leaves the factory's merge request and
\* its staged files as they were; the push right after one that failed at
\* the merge request is therefore not refused and runs on the same staged
\* files, so the commit is made a second time.
C30_FailedPushKeepsFiles ==
    \A k \in FactoryOps :
        PushAt(k) =>
            /\ ops[k].raised = "PromptToolError" => ops[k].after = ops[k].before
            /\ (k > 1 /\ PushAt(k - 1) /\ ops[k - 1].at = "mergerequests.create")
                  => /\ ops[k - 1].commit
                     /\ ops[k].at # "check"
                     /\ ops[k].before = ops[k - 1].before
                     /\ ops[k].before.merge_request_files # {}

C30_Witness ==
    \E k \in FactoryOps :
        /\ k > 1
        /\ PushAt(k - 1) /\ ops[k - 1].at = "mergerequests.create" /\ ops[k - 1].commit
        /\ PushAt(k) /\ ops[k].commit
        /\ ops[k].before.merge_request_files = ops[k - 1].before.merge_request_files
        /\ \E m \in 1..(k - 2) :
              PushAt(m) /\ ops[m].at = "commits.create"
                        /\ ops[m].after = ops[m].before
====
